---- MODULE Spec2Model ----
(***************************************************************************)
(* Model of src/main.go: a GPIO switch monitor (monitorSwitch) that posts  *)
(* to Slack on level changes, an HTTP surface (handleOptIn, getStatus), a  *)
(* log file written through the standard logger, and an hourly compaction  *)
(* goroutine (cleanupOldLogs) that rewrites that file.                     *)
(*                                                                         *)
(* Time is counted in whole hours.  A log line is a record                 *)
(*   [kind, t, len, msg]                                                   *)
(* kind : the shape of the line's leading bytes                            *)
(*        "rfcZ"   "2006-01-02T15:04:05Z..."       (20-byte RFC3339, UTC)   *)
(*        "rfcOff" "2006-01-02T15:04:05+07:00..."  (RFC3339, numeric zone)  *)
(*        "std"    "2006/01/02 15:04:05 main.go:135: ..." (log.LstdFlags)   *)
(*        "junk"   anything else                                           *)
(* t    : the instant the leading timestamp denotes (0 for junk)           *)
(* len  : the line's length in bytes, newline excluded                     *)
(* msg  : the payload                                                      *)
(***************************************************************************)
EXTENDS Integers, Sequences, FiniteSets, TLC

\* ---------------------------------------------------------------- bounds
NumHandlers == 2
MaxPolls == 3
MaxTicks == 2
MaxFileLines == 4
MaxInitLines == 1
MaxStoreLines == 3
StartTime == 30

\* ------------------------------------------------------ program constants
logCleanupInterval == 1
logRetentionDuration == 24
PrefixLen == 20
slackVerificationToken == "your-slack-verification-token"

\* gpio.Level is a bool: Low = false, High = true
Low == FALSE
High == TRUE
Levels == {Low, High}

\* the zero value of gpio.Level, which `var lastState gpio.Level` holds
ZeroLevel == Low

Handlers == 1..NumHandlers

Range(s) == {s[i] : i \in 1..Len(s)}

\* ------------------------------------------------------------- log lines
Empty == [kind |-> "junk", t |-> 0, len |-> 0, msg |-> ""]

\* lengths of the payloads the program logs (error texts: a typical width)
MsgLen(msg) ==
    CASE msg = "Switch state changed to: true" -> 29
      [] msg = "Switch state changed to: false" -> 30
      [] msg = "HTTP server running on port 8080" -> 32
      [] OTHER -> 40

\* log.SetFlags(log.LstdFlags | log.Lshortfile): "2006/01/02 15:04:05 " (20
\* bytes) then "main.go:NNN: " (13 bytes) then the message
StdLine(t, msg) ==
    [kind |-> "std", t |-> t, len |-> PrefixLen + 13 + MsgLen(msg), msg |-> msg]

\* A file is the sequence of its newline-terminated lines plus the bytes after
\* the last newline (tail; Empty when the file is empty or ends in a newline).
EmptyFile == [lines |-> <<>>, tail |-> Empty]

FileLen(f) == Len(f.lines) + (IF f.tail.len > 0 THEN 1 ELSE 0)

\* bytes a followed by bytes b, with no newline between
Concat(a, b) ==
    IF a.len = 0 THEN b
    ELSE [kind |-> IF a.len >= PrefixLen THEN a.kind ELSE "junk",
          t |-> IF a.len >= PrefixLen THEN a.t ELSE 0,
          len |-> a.len + b.len,
          msg |-> a.msg]

\* a write of line ++ "\n" through a descriptor opened with O_APPEND
AppendBytes(f, line) ==
    [lines |-> Append(f.lines, Concat(f.tail, line)), tail |-> Empty]

\* bytes.Split(content, "\n"): the terminated lines, then what follows the
\* last newline (an empty slice when nothing does)
Split(f) == Append(f.lines, f.tail)

\* ------------------------------------------------- cleanupOldLogs, pure part
\* entry[:20]: the slice's first 20 bytes.  For an entry shorter than that the
\* expression reaches into the bytes behind it (never a timestamp).
Prefix20(entry) ==
    IF entry.len >= PrefixLen THEN [kind |-> entry.kind, t |-> entry.t]
    ELSE [kind |-> "junk", t |-> 0]

\* time.Parse(time.RFC3339, p) on exactly 20 bytes: only "....-..-..T..:..:..Z"
\* parses; a numeric zone needs 25 bytes, the logger's own stamp has '/' and ' '
TimeParse(p) == [ok |-> p.kind = "rfcZ", t |-> p.t]

\* the capacity of the i-th slice bytes.Split returns: every slice but the last
\* is capped at its length; the last one runs to the end of ReadFile's buffer,
\* which has `spare` unused bytes
EntryCap(entries, i, spare) ==
    IF i < Len(entries) THEN entries[i].len ELSE entries[i].len + spare

\* entry[:20] panics (slice bounds out of range) when 20 exceeds the capacity;
\* the loop reaches the expression only for non-empty entries
SlicePanics(entries, spare) ==
    \E i \in 1..Len(entries) :
        /\ entries[i].len # 0
        /\ EntryCap(entries, i, spare) < PrefixLen

\* a variant that keeps a line stamped exactly at the cutoff
KeepEntry_NotBefore(entry, cutoff) ==
    /\ entry.len # 0
    /\ TimeParse(Prefix20(entry)).ok
    /\ TimeParse(Prefix20(entry)).t >= cutoff

\* lines 111-117: the test that appends entry and '\n' to recentLogs
KeepEntry(entry, cutoff) ==
    /\ entry.len # 0
    /\ TimeParse(Prefix20(entry)).ok
    /\ TimeParse(Prefix20(entry)).t > cutoff

Reverse(s) == [i \in 1..Len(s) |-> s[Len(s) + 1 - i]]

\* a variant that puts each kept line in front of the ones kept before it
RecentLogs_Prepend(entries, cutoff) ==
    Reverse(SelectSeq(entries, LAMBDA e : KeepEntry(e, cutoff)))

\* lines 107-118
RecentLogs(entries, cutoff) == SelectSeq(entries, LAMBDA e : KeepEntry(e, cutoff))

\* spare capacity behind the data os.ReadFile returns: one byte for a file of
\* 512 bytes or more, up to 512 bytes for a smaller one
Spares == {1, 512}

\* ------------------------------------------------------------------ state
VARIABLES
    now,          \* wall clock, hours
    pin,          \* the level GPIO17 has now
    crashed,      \* the process died of a panic
    mainPc,       \* main: "spawn", "close", "serve", "serving"
    sinkOpen,     \* logFile, the logger's output, is open
    file,         \* logs/app.log
    cleanPc,      \* cleanupOldLogs: "sleep", "filter", "write"
    wakeAt,       \* when its time.Sleep ends
    logEntries,   \* bytes.Split of what it read
    cutoff,
    recentLogs,
    monPc,        \* monitorSwitch: "off", "read", "update", "log", "send", "sending", "sleep"
    lastState,
    currentState,
    state,        \* the global `state`
    stateSeen,    \* values of `state` an unsynchronised reader may observe
    optInUsers,   \* the keys of the map optInUsers
    lockHolder,   \* the goroutines that hold optInUsersLock
    hs,           \* the request handlers
    lastReply,    \* history: the response written last
    okCount,      \* history: accepted opt-ins per user_id, counted up to 2
    \* history
    nPolls, prevLevel, nChanges, nSent, nStores,
    nLogged,      \* history: transitions monitorSwitch handed to the logger
    appended,     \* lines the logger put in the file: [entry, at, cyc]
    cleanResult,  \* how the last compaction cycle ended
    touched,      \* the file was appended to since the last overwrite
    recording     \* the poll history is being counted

cleanVars == <<cleanPc, wakeAt, logEntries, cutoff, recentLogs, cleanResult>>
fileVars == <<file, appended, touched>>
monVars == <<monPc, lastState, currentState, state, stateSeen>>
monHist == <<nPolls, prevLevel, nChanges, nSent, nStores, nLogged>>
httpVars == <<optInUsers, lockHolder, hs, lastReply, okCount>>
vars == <<now, pin, crashed, mainPc, sinkOpen, cleanVars, fileVars, monVars,
          monHist, httpVars, recording>>

\* ------------------------------------------------------------ the logger
\* log.Println / log.Printf: one line written to logFile; the write fails when
\* the file is closed or the disk is full, and the logger drops the error
LogOutput(f, msg) ==
    IF sinkOpen /\ FileLen(f) < MaxFileLines
    THEN AppendBytes(f, StdLine(now, msg))
    ELSE f

LogRecord(f, msg, cyc) ==
    IF sinkOpen /\ FileLen(f) < MaxFileLines
    THEN {[entry |-> Concat(f.tail, StdLine(now, msg)), at |-> now, cyc |-> cyc]}
    ELSE {}

Log(msg) ==
    /\ file' = LogOutput(file, msg)
    /\ appended' = appended \cup LogRecord(file, msg, cleanPc # "sleep")
    /\ touched' = (touched \/ file' # file)

\* ---------------------------------------------------------- cleanupOldLogs
\* a variant without the `continue` after a failed read: the cycle goes on
\* with the empty data os.ReadFile returned
CleanupRead_NoContinue ==
    /\ ~crashed
    /\ cleanPc = "sleep"
    /\ now >= wakeAt
    /\ \E readOk \in BOOLEAN :
        IF readOk
        THEN /\ logEntries' = Split(file)
             /\ appended' = {[a EXCEPT !.cyc = FALSE] : a \in appended}
             /\ UNCHANGED <<cleanResult, file, touched>>
        ELSE /\ Log("Failed to read log file")
             /\ logEntries' = Split(EmptyFile)
             /\ cleanResult' = "readfail"
    /\ cleanPc' = "filter"
    /\ UNCHANGED <<now, pin, crashed, mainPc, sinkOpen, wakeAt, cutoff,
                   recentLogs, monVars, monHist, httpVars, recording>>

\* lines 99-105: the sleep ends, the file is read
CleanupRead ==
    /\ ~crashed
    /\ cleanPc = "sleep"
    /\ now >= wakeAt
    /\ \E readOk \in BOOLEAN :
        IF readOk
        THEN /\ logEntries' = Split(file)
             /\ cleanPc' = "filter"
             /\ appended' = {[a EXCEPT !.cyc = FALSE] : a \in appended}
             /\ UNCHANGED <<wakeAt, cleanResult, file, touched>>
        ELSE /\ Log("Failed to read log file")
             /\ wakeAt' = now + logCleanupInterval
             /\ cleanResult' = "readfail"
             /\ UNCHANGED <<cleanPc, logEntries>>
    /\ UNCHANGED <<now, pin, crashed, mainPc, sinkOpen, cutoff, recentLogs,
                   monVars, monHist, httpVars, recording>>

\* lines 107-118: cutoff, then the loop over the entries
CleanupFilter ==
    /\ ~crashed
    /\ cleanPc = "filter"
    /\ cutoff' = now - logRetentionDuration
    /\ \E spare \in Spares :
        IF SlicePanics(logEntries, spare)
        THEN /\ crashed' = TRUE
             /\ UNCHANGED <<cleanPc, recentLogs>>
        ELSE /\ recentLogs' = RecentLogs(logEntries, cutoff')
             /\ cleanPc' = "write"
             /\ UNCHANGED crashed
    /\ UNCHANGED <<now, pin, mainPc, sinkOpen, wakeAt, logEntries, cleanResult,
                   fileVars, monVars, monHist, httpVars, recording>>

\* lines 120-123: os.WriteFile (open with O_TRUNC, write, close), then sleep
CleanupWrite ==
    /\ ~crashed
    /\ cleanPc = "write"
    /\ cleanPc' = "sleep"
    /\ wakeAt' = now + logCleanupInterval
    /\ \E outcome \in {"ok", "openfail", "writefail"} :
        CASE outcome = "ok" ->
                /\ file' = [lines |-> recentLogs, tail |-> Empty]
                /\ touched' = FALSE
                /\ cleanResult' = "written"
                /\ UNCHANGED appended
          [] outcome = "openfail" ->
                /\ Log("Failed to write log file")
                /\ cleanResult' = "writefail"
          [] outcome = "writefail" ->
                /\ file' = LogOutput(EmptyFile, "Failed to write log file")
                /\ appended' = appended \cup
                       LogRecord(EmptyFile, "Failed to write log file", FALSE)
                /\ touched' = TRUE
                /\ cleanResult' = "writefail"
    /\ UNCHANGED <<now, pin, crashed, mainPc, sinkOpen, logEntries, cutoff,
                   recentLogs, monVars, monHist, httpVars, recording>>

\* ------------------------------------------------------------ environment
Tick ==
    /\ now < StartTime + MaxTicks
    /\ now' = now + 1
    /\ UNCHANGED <<pin, crashed, mainPc, sinkOpen, cleanVars, fileVars, monVars,
                   monHist, httpVars, recording>>

PinFlip ==
    /\ pin' = ~pin
    /\ UNCHANGED <<now, crashed, mainPc, sinkOpen, cleanVars, fileVars, monVars,
                   monHist, httpVars, recording>>

\* -------------------------------------------------------------------- main
\* line 46: go monitorSwitch(...)
MainSpawn ==
    /\ ~crashed
    /\ mainPc = "spawn"
    /\ mainPc' = "close"
    /\ monPc' = "read"
    /\ UNCHANGED <<now, pin, crashed, sinkOpen, cleanVars, fileVars, lastState,
                   currentState, state, stateSeen, monHist, httpVars, recording>>

\* main returns: the deferred calls run last-in first-out; line 43,
\* logFile.Close(), was deferred last
MainClose ==
    /\ ~crashed
    /\ mainPc = "close"
    /\ mainPc' = "serve"
    /\ sinkOpen' = FALSE
    /\ UNCHANGED <<now, pin, crashed, cleanVars, fileVars, monVars, monHist,
                   httpVars, recording>>

\* then line 40, startHTTPServer(): lines 153-156
MainServe ==
    /\ ~crashed
    /\ mainPc = "serve"
    /\ mainPc' = "serving"
    /\ Log("HTTP server running on port 8080")
    /\ UNCHANGED <<now, pin, crashed, sinkOpen, cleanVars, monVars, monHist,
                   httpVars, recording>>

\* ----------------------------------------------------------- monitorSwitch
\* lines 130-131: pin.Read() and the comparison with lastState
MonitorRead ==
    /\ ~crashed
    /\ monPc = "read"
    /\ recording => nPolls < MaxPolls
    /\ currentState' = pin
    /\ monPc' = IF pin # lastState THEN "update" ELSE "sleep"
    /\ IF recording
       THEN /\ nPolls' = nPolls + 1
            /\ prevLevel' = pin
            /\ nChanges' = IF nPolls > 0 /\ prevLevel # pin THEN nChanges + 1
                           ELSE nChanges
       ELSE UNCHANGED <<nPolls, prevLevel, nChanges>>
    /\ UNCHANGED <<now, pin, crashed, mainPc, sinkOpen, cleanVars, fileVars,
                   lastState, state, stateSeen, nSent, nStores, nLogged,
                   httpVars, recording>>

\* a variant that calls sendSlackMessage before log.Println
MonitorUpdate_SendFirst ==
    /\ ~crashed
    /\ monPc = "update"
    /\ lastState' = currentState
    /\ state' = (currentState = Low)
    /\ stateSeen' = stateSeen \cup {state'}
    /\ nStores' = IF recording THEN nStores + 1 ELSE nStores
    /\ monPc' = "send"
    /\ hs' = [h \in Handlers |->
                IF recording /\ hs[h].pc = "status"
                THEN [hs[h] EXCEPT !.quiet = FALSE]
                ELSE hs[h]]
    /\ UNCHANGED <<now, pin, crashed, mainPc, sinkOpen, cleanVars, fileVars,
                   currentState, nPolls, prevLevel, nChanges, nSent, nLogged,
                   optInUsers, lockHolder, lastReply, okCount, recording>>

\* lines 132-134: lastState, the global state, the message
MonitorUpdate ==
    /\ ~crashed
    /\ monPc = "update"
    /\ lastState' = currentState
    /\ state' = (currentState = Low)
    /\ stateSeen' = stateSeen \cup {state'}
    /\ nStores' = IF recording THEN nStores + 1 ELSE nStores
    /\ monPc' = "log"
    /\ hs' = [h \in Handlers |->
                IF recording /\ hs[h].pc = "status"
                THEN [hs[h] EXCEPT !.quiet = FALSE]
                ELSE hs[h]]
    /\ UNCHANGED <<now, pin, crashed, mainPc, sinkOpen, cleanVars, fileVars,
                   currentState, nPolls, prevLevel, nChanges, nSent, nLogged,
                   optInUsers, lockHolder, lastReply, okCount, recording>>

Message == IF state THEN "Switch state changed to: true"
           ELSE "Switch state changed to: false"

\* line 135: log.Println(message)
MonitorLog ==
    /\ ~crashed
    /\ monPc = "log"
    /\ Log(Message)
    /\ monPc' = "send"
    /\ nLogged' = IF recording THEN nLogged + 1 ELSE nLogged
    /\ UNCHANGED <<now, pin, crashed, mainPc, sinkOpen, cleanVars, lastState,
                   currentState, state, stateSeen, nPolls, prevLevel, nChanges,
                   nSent, nStores, httpVars, recording>>

\* lines 136, 144-145: sendSlackMessage calls api.PostMessage
MonitorSend ==
    /\ ~crashed
    /\ monPc = "send"
    /\ monPc' = "sending"
    /\ nSent' = IF recording THEN nSent + 1 ELSE nSent
    /\ UNCHANGED <<now, pin, crashed, mainPc, sinkOpen, cleanVars, fileVars,
                   lastState, currentState, state, stateSeen, nPolls, prevLevel,
                   nChanges, nStores, nLogged, httpVars, recording>>

\* a variant that sends again when PostMessage returns an error
SlackReturn_Retry ==
    /\ ~crashed
    /\ monPc = "sending"
    /\ \E err \in BOOLEAN :
        IF err THEN /\ Log("Failed to send Slack message")
                    /\ monPc' = "send"
        ELSE /\ UNCHANGED fileVars
             /\ monPc' = "sleep"
    /\ UNCHANGED <<now, pin, crashed, mainPc, sinkOpen, cleanVars, lastState,
                   currentState, state, stateSeen, monHist, httpVars, recording>>

\* lines 145-149: PostMessage returns, with or without an error
SlackReturn ==
    /\ ~crashed
    /\ monPc = "sending"
    /\ monPc' = "sleep"
    /\ \E err \in BOOLEAN :
        IF err THEN Log("Failed to send Slack message")
        ELSE UNCHANGED fileVars
    /\ UNCHANGED <<now, pin, crashed, mainPc, sinkOpen, cleanVars, lastState,
                   currentState, state, stateSeen, monHist, httpVars, recording>>

\* line 138: time.Sleep(pollingInterval)
MonitorSleep ==
    /\ ~crashed
    /\ monPc = "sleep"
    /\ monPc' = "read"
    /\ UNCHANGED <<now, pin, crashed, mainPc, sinkOpen, cleanVars, fileVars,
                   lastState, currentState, state, stateSeen, monHist, httpVars,
                   recording>>

\* ------------------------------------------------------------ HTTP surface
UserIds == {"", "U1", "U2"}
Tokens == {slackVerificationToken, "wrong-token"}

\* a request as the handlers see it: parseOk is what r.ParseForm() makes of
\* it, user_id and token what r.FormValue returns
Requests ==
    {[path |-> "/status", parseOk |-> TRUE, user_id |-> "", token |-> ""]}
    \cup [path : {"/optin"}, parseOk : BOOLEAN, user_id : UserIds, token : Tokens]

\* the goroutines that touch the shared variables
HandlerTask(h) == <<"handler", h>>
MonitorTask == <<"monitorSwitch", 0>>

StatusRequests == {r \in Requests : r.path = "/status"}

NoResp == [code |-> 0, text |-> "", to |-> "", state |-> FALSE]

NoRequest == [path |-> "", parseOk |-> TRUE, user_id |-> "", token |-> ""]

\* a handler goroutine: where it is, its request and the value getStatus read;
\* and, as history: stored, monitorSwitch had written `state` when the request
\* came in; quiet, it has not written it between then and the handler's read;
\* cur, what `state` held at that read
IdleHandler ==
    [pc |-> "idle", req |-> NoRequest, val |-> FALSE, stored |-> FALSE,
     quiet |-> TRUE, cur |-> FALSE]

\* history: the response written last, with its handler's record
NoReply == [req |-> NoRequest, resp |-> NoResp, stored |-> FALSE,
            quiet |-> TRUE, cur |-> FALSE]

Reply(h, resp) ==
    IF recording
    THEN [req |-> hs[h].req, resp |-> resp, stored |-> hs[h].stored,
          quiet |-> hs[h].quiet, cur |-> hs[h].cur]
    ELSE NoReply

\* net/http runs the handler registered for the path in a goroutine of its own
HttpRequestFrom(h, requests) ==
    /\ ~crashed
    /\ mainPc = "serving"
    /\ hs[h].pc = "idle"
    /\ \E req \in requests :
        hs' = [hs EXCEPT ![h] =
                 [pc |-> IF req.path = "/optin" THEN "check" ELSE "status",
                  req |-> req, val |-> FALSE, stored |-> nStores > 0,
                  quiet |-> TRUE, cur |-> FALSE]]
    /\ UNCHANGED <<now, pin, crashed, mainPc, sinkOpen, cleanVars, fileVars,
                   monVars, monHist, optInUsers, lockHolder, lastReply, okCount,
                   recording>>

HttpRequest(h) == HttpRequestFrom(h, Requests)

StatusRequest(h) == HttpRequestFrom(h, StatusRequests)

\* a variant that rejects only when both tests fail
Unauthorized_Both(userID, slackToken) ==
    userID = "" /\ slackToken # slackVerificationToken

\* line 168
Unauthorized(userID, slackToken) ==
    userID = "" \/ slackToken # slackVerificationToken

\* a variant that stores the user before it checks the credentials
OptInCheck_InsertFirst(h) ==
    /\ ~crashed
    /\ hs[h].pc = "check"
    /\ IF ~hs[h].req.parseOk
       THEN /\ hs' = [hs EXCEPT ![h] = IdleHandler]
            /\ lastReply' = Reply(h, [NoResp EXCEPT !.code = 400,
                                           !.text = "Invalid request format"])
            /\ UNCHANGED optInUsers
       ELSE /\ optInUsers' = optInUsers \cup {hs[h].req.user_id}
            /\ IF Unauthorized(hs[h].req.user_id, hs[h].req.token)
               THEN /\ hs' = [hs EXCEPT ![h] = IdleHandler]
                    /\ lastReply' = Reply(h, [NoResp EXCEPT !.code = 401,
                                                   !.text = "Invalid user or token"])
               ELSE /\ hs' = [hs EXCEPT ![h].pc = "lock"]
                    /\ UNCHANGED lastReply
    /\ UNCHANGED <<now, pin, crashed, mainPc, sinkOpen, cleanVars, fileVars,
                   monVars, monHist, lockHolder, okCount, recording>>

\* lines 161-171: ParseForm, the two form values, the check; http.Error writes
\* the response and the handler returns
OptInCheck(h) ==
    /\ ~crashed
    /\ hs[h].pc = "check"
    /\ IF ~hs[h].req.parseOk
       THEN /\ hs' = [hs EXCEPT ![h] = IdleHandler]
            /\ lastReply' = Reply(h, [NoResp EXCEPT !.code = 400,
                                           !.text = "Invalid request format"])
       ELSE IF Unauthorized(hs[h].req.user_id, hs[h].req.token)
       THEN /\ hs' = [hs EXCEPT ![h] = IdleHandler]
            /\ lastReply' = Reply(h, [NoResp EXCEPT !.code = 401,
                                           !.text = "Invalid user or token"])
       ELSE /\ hs' = [hs EXCEPT ![h].pc = "lock"]
            /\ UNCHANGED lastReply
    /\ UNCHANGED <<now, pin, crashed, mainPc, sinkOpen, cleanVars, fileVars,
                   monVars, monHist, optInUsers, lockHolder, okCount, recording>>

\* line 173: optInUsersLock.Lock()
OptInLock(h) ==
    /\ ~crashed
    /\ hs[h].pc = "lock"
    /\ lockHolder = {}
    /\ lockHolder' = {HandlerTask(h)}
    /\ hs' = [hs EXCEPT ![h].pc = "insert"]
    /\ UNCHANGED <<now, pin, crashed, mainPc, sinkOpen, cleanVars, fileVars,
                   monVars, monHist, optInUsers, lastReply, okCount, recording>>

\* a variant that forgets the earlier subscribers
MapInsert_Fresh(m, key) == {key}

\* optInUsers[userID] = true, on a map whose values are all true
MapInsert(m, key) == m \cup {key}

\* line 175
OptInInsert(h) ==
    /\ ~crashed
    /\ hs[h].pc = "insert"
    /\ optInUsers' = MapInsert(optInUsers, hs[h].req.user_id)
    /\ hs' = [hs EXCEPT ![h].pc = "respond"]
    /\ okCount' = [okCount EXCEPT ![hs[h].req.user_id] =
                                     IF recording /\ @ < 2 THEN @ + 1 ELSE @]
    /\ UNCHANGED <<now, pin, crashed, mainPc, sinkOpen, cleanVars, fileVars,
                   monVars, monHist, lockHolder, lastReply, recording>>

\* the userID the acknowledgment names
AckTo(userID) == userID

\* lines 177-182: the acknowledgment is encoded into the response
OptInRespond(h) ==
    /\ ~crashed
    /\ hs[h].pc = "respond"
    /\ hs' = [hs EXCEPT ![h].pc = "unlock"]
    /\ lastReply' = Reply(h, [NoResp EXCEPT
                            !.code = 200,
                            !.text = "You have opted in for notifications",
                            !.to = AckTo(hs[h].req.user_id)])
    /\ UNCHANGED <<now, pin, crashed, mainPc, sinkOpen, cleanVars, fileVars,
                   monVars, monHist, optInUsers, lockHolder, okCount, recording>>

\* line 174, run at the return: optInUsersLock.Unlock()
OptInUnlock(h) ==
    /\ ~crashed
    /\ hs[h].pc = "unlock"
    /\ lockHolder' = {}
    /\ hs' = [hs EXCEPT ![h] = IdleHandler]
    /\ UNCHANGED <<now, pin, crashed, mainPc, sinkOpen, cleanVars, fileVars,
                   monVars, monHist, optInUsers, lastReply, okCount, recording>>

\* line 187: the global state is read with no lock held, while monitorSwitch
\* writes it with no lock held: the read observes the initial value or any
\* value written so far
StatusRead(h) ==
    /\ ~crashed
    /\ hs[h].pc = "status"
    /\ \E v \in stateSeen :
        hs' = [hs EXCEPT ![h].pc = "reply", ![h].val = v,
                         ![h].cur = recording /\ state]
    /\ UNCHANGED <<now, pin, crashed, mainPc, sinkOpen, cleanVars, fileVars,
                   monVars, monHist, optInUsers, lockHolder, lastReply, okCount,
                   recording>>

\* lines 188-189
StatusRespond(h) ==
    /\ ~crashed
    /\ hs[h].pc = "reply"
    /\ hs' = [hs EXCEPT ![h] = IdleHandler]
    /\ lastReply' = Reply(h, [NoResp EXCEPT !.code = 200, !.state = hs[h].val])
    /\ UNCHANGED <<now, pin, crashed, mainPc, sinkOpen, cleanVars, fileVars,
                   monVars, monHist, optInUsers, lockHolder, okCount, recording>>

\* ------------------------------------------------------------ initial state
HelloLine(t) == [kind |-> "rfcZ", t |-> t, len |-> 26, msg |-> "hello"]
ZonedLine(t) == [kind |-> "rfcOff", t |-> t, len |-> 31, msg |-> "hello"]
JunkLine == [kind |-> "junk", t |-> 0, len |-> 29,
             msg |-> "not-a-timestamp-but-20chars!!"]
ShortLine == [kind |-> "junk", t |-> 0, len |-> 5, msg |-> "short"]

\* what logs/app.log may hold when the process starts
InitLines ==
    {HelloLine(StartTime), ShortLine, StdLine(StartTime, "Switch state changed to: true")}

\* a wider choice, for the compaction loop taken alone
StoreLines ==
    {HelloLine(StartTime - 23), HelloLine(StartTime - 22), HelloLine(StartTime),
     ZonedLine(StartTime), JunkLine, ShortLine, Empty,
     StdLine(StartTime, "Switch state changed to: true")}

SeqsUpTo(S, n) == UNION {[1..k -> S] : k \in 0..n}

InitFiles ==
    [lines : SeqsUpTo(InitLines, MaxInitLines), tail : {Empty, ShortLine}]

StoreFiles ==
    [lines : SeqsUpTo(StoreLines, MaxStoreLines),
     tail : {Empty, ShortLine, HelloLine(StartTime)}]

\* the state when main reaches line 46: the log file is open and is the
\* logger's output, cleanupOldLogs has been started and sleeps
InitWith(files, levels, rec) ==
    /\ now = StartTime
    /\ pin \in levels
    /\ crashed = FALSE
    /\ mainPc = "spawn"
    /\ sinkOpen = TRUE
    /\ file \in files
    /\ cleanPc = "sleep"
    /\ wakeAt = StartTime + logCleanupInterval
    /\ logEntries = <<>>
    /\ cutoff = 0
    /\ recentLogs = <<>>
    /\ monPc = "off"
    /\ lastState = ZeroLevel
    /\ currentState = ZeroLevel
    /\ state = FALSE
    /\ stateSeen = {FALSE}
    /\ optInUsers = {}
    /\ lockHolder = {}
    /\ hs = [h \in Handlers |-> IdleHandler]
    /\ lastReply = NoReply
    /\ okCount = [u \in UserIds |-> 0]
    /\ nPolls = 0
    /\ prevLevel = ZeroLevel
    /\ nChanges = 0
    /\ nSent = 0
    /\ nStores = 0
    /\ nLogged = 0
    /\ appended = {}
    /\ cleanResult = "none"
    /\ touched = FALSE
    /\ recording = rec

Init == InitWith(InitFiles, Levels, TRUE)

EnvNext == Tick \/ PinFlip

MainNext == MainSpawn \/ MainClose \/ MainServe

CleanupNext == CleanupRead \/ CleanupFilter \/ CleanupWrite

MonitorNext ==
    \/ MonitorRead
    \/ MonitorUpdate
    \/ MonitorLog
    \/ MonitorSend
    \/ SlackReturn
    \/ MonitorSleep

HttpNext ==
    \/ \E h \in Handlers : HttpRequest(h)
    \/ \E h \in Handlers : OptInCheck(h)
    \/ \E h \in Handlers : OptInLock(h)
    \/ \E h \in Handlers : OptInInsert(h)
    \/ \E h \in Handlers : OptInRespond(h)
    \/ \E h \in Handlers : OptInUnlock(h)
    \/ \E h \in Handlers : StatusRead(h)
    \/ \E h \in Handlers : StatusRespond(h)

\* the whole program
Next == EnvNext \/ MainNext \/ CleanupNext \/ MonitorNext \/ HttpNext

Spec == Init /\ [][Next]_vars

\* the request handlers and main, which starts the server
HttpStep == MainNext \/ HttpNext
HttpInit == InitWith({EmptyFile}, {High}, TRUE)
HttpSpec == HttpInit /\ [][HttpStep]_vars

\* the switch monitor and main, which starts it
MonitorStep == PinFlip \/ MainNext \/ MonitorNext
MonitorSpec == Init /\ [][MonitorStep]_vars

\* the switch monitor and the status endpoint
StatusNext ==
    \/ \E h \in Handlers : StatusRequest(h)
    \/ \E h \in Handlers : StatusRead(h)
    \/ \E h \in Handlers : StatusRespond(h)
StatusStep == PinFlip \/ MainNext \/ MonitorNext \/ StatusNext
StatusSpec == Init /\ [][StatusStep]_vars

\* the log file's writers: the compaction loop, and main and monitorSwitch,
\* which log
StoreStep == EnvNext \/ MainNext \/ CleanupNext \/ MonitorNext
StoreSpec == Init /\ [][StoreStep]_vars

\* the compaction loop alone, over the wider choice of files
CompactStep == Tick \/ CleanupNext
CompactInit == InitWith(StoreFiles, {High}, TRUE)
CompactSpec == CompactInit /\ [][CompactStep]_vars

\* the three loops together once the server is up: monitorSwitch, the request
\* handlers and cleanupOldLogs.  It starts where main has run its deferred
\* calls (line 47: logFile is closed, ListenAndServe is serving), monitorSwitch
\* is about to poll for the first time and the first compaction is due.
FrameFiles == {[lines |-> <<HelloLine(StartTime)>>, tail |-> Empty]}

FrameRequests == {r \in Requests : r.user_id = "U1"} \cup StatusRequests

FrameInit ==
    /\ now = StartTime + logCleanupInterval
    /\ pin \in Levels
    /\ crashed = FALSE
    /\ mainPc = "serving"
    /\ sinkOpen = FALSE
    /\ file \in FrameFiles
    /\ cleanPc = "sleep"
    /\ wakeAt = StartTime + logCleanupInterval
    /\ logEntries = <<>>
    /\ cutoff = 0
    /\ recentLogs = <<>>
    /\ monPc = "read"
    /\ lastState = ZeroLevel
    /\ currentState = ZeroLevel
    /\ state = FALSE
    /\ stateSeen = {FALSE}
    /\ optInUsers = {}
    /\ lockHolder = {}
    /\ hs = [h \in Handlers |-> IdleHandler]
    /\ lastReply = NoReply
    /\ okCount = [u \in UserIds |-> 0]
    /\ nPolls = 0
    /\ prevLevel = ZeroLevel
    /\ nChanges = 0
    /\ nSent = 0
    /\ nStores = 0
    /\ nLogged = 0
    /\ appended = {}
    /\ cleanResult = "none"
    /\ touched = FALSE
    /\ recording = FALSE

FrameHttp ==
    \/ \E h \in Handlers : HttpRequestFrom(h, FrameRequests)
    \/ \E h \in Handlers : OptInCheck(h)
    \/ \E h \in Handlers : OptInLock(h)
    \/ \E h \in Handlers : OptInInsert(h)
    \/ \E h \in Handlers : OptInRespond(h)
    \/ \E h \in Handlers : OptInUnlock(h)
    \/ \E h \in Handlers : StatusRead(h)
    \/ \E h \in Handlers : StatusRespond(h)

FrameStep == PinFlip \/ CleanupNext \/ MonitorNext \/ FrameHttp
FrameSpec == FrameInit /\ [][FrameStep]_vars

\* the switch monitor with its scheduling: the Go scheduler runs every runnable
\* goroutine, so main and each step of monitorSwitch get their turn; nothing
\* makes the Slack API answer
LiveInit == InitWith({EmptyFile}, Levels, FALSE)
LiveSpec ==
    /\ LiveInit
    /\ [][MonitorStep]_vars
    /\ WF_vars(MainNext)
    /\ WF_vars(MonitorRead)
    /\ WF_vars(MonitorUpdate)
    /\ WF_vars(MonitorLog)
    /\ WF_vars(MonitorSend)
    /\ WF_vars(MonitorSleep)

\* ------------------------------------------------------------------ claims

\* C1: whenever monitorSwitch is between two polls or waits for Slack, the
\* number of notifications dispatched equals the number of polls that read a
\* level different from the one read at the poll before; the first poll alone
\* dispatches nothing.
C1_SentEqualsChanges ==
    monPc \in {"off", "read", "sending", "sleep"} => nSent = nChanges

\* C2: a GET /status request that came in after monitorSwitch had stored a
\* value, and that reads `state` before the next store, answers with the value
\* stored last.
C2_ReadAfterWrite ==
    (/\ lastReply.req.path = "/status"
     /\ lastReply.stored
     /\ lastReply.quiet) => lastReply.resp.state = lastReply.cur

\* C3: when a compaction cycle has overwritten the file, every line that was
\* appended between the cycle's read and its overwrite, with a stamp inside the
\* retention window, is a line of the file.
C3_NoAppendLost ==
    (cleanPc = "sleep" /\ cleanResult = "written") =>
        \A a \in appended :
            (a.cyc /\ a.at > cutoff) => a.entry \in Range(file.lines)

\* C4: a compaction cycle keeps every line that the logger wrote less than the
\* retention window ago and that the cycle read.
C4_RecentLogLinesKept ==
    cleanPc = "write" =>
        \A a \in appended :
            (a.entry \in Range(logEntries) /\ a.at > cutoff)
                => a.entry \in Range(recentLogs)

\* the claim's test of a line: not empty, led by 20 bytes that are an RFC3339
\* timestamp, and that timestamp strictly after the cutoff
Recent(entry, c) ==
    /\ entry.len > 0
    /\ entry.len >= PrefixLen
    /\ entry.kind = "rfcZ"
    /\ entry.t > c

\* C5: the lines a compaction cycle keeps are exactly the lines it read that
\* are non-empty, led by a 20-byte RFC3339 timestamp, and stamped strictly
\* after now - 24h, in the order read; and they are what the file holds once
\* the cycle has overwritten it.
C5_KeepsExactlyRecent ==
    /\ cleanPc = "write" =>
         recentLogs = SelectSeq(logEntries, LAMBDA e : Recent(e, cutoff))
    /\ (cleanPc = "sleep" /\ cleanResult = "written" /\ ~touched) =>
         file = [lines |-> SelectSeq(logEntries, LAMBDA e : Recent(e, cutoff)),
                 tail |-> Empty]

\* C5's case: the three lines of the example, read and compacted with a cutoff
\* before the first line's stamp
C5_Witness ==
    /\ cleanPc = "sleep"
    /\ cleanResult = "written"
    /\ ~touched
    /\ logEntries = <<HelloLine(StartTime), Empty, JunkLine, Empty>>
    /\ cutoff < StartTime
    /\ file.lines = <<HelloLine(StartTime)>>

\* C6: whatever the log file holds, compaction never takes the process down,
\* and what it keeps holds no malformed line.
C6_CompactionFailOpen ==
    /\ ~crashed
    /\ cleanPc = "write" =>
         \A i \in 1..Len(recentLogs) : recentLogs[i].kind = "rfcZ"

\* C7: a goroutine that is about to write or read `state`, or to write
\* optInUsers, holds optInUsersLock.
C7_AccessesHoldLock ==
    /\ monPc = "update" => MonitorTask \in lockHolder
    /\ \A h \in Handlers :
         hs[h].pc \in {"status", "insert"} => HandlerTask(h) \in lockHolder

\* C8: monitorSwitch reads the pin again and again, forever, also when a call
\* to Slack never returns.
C8_PollsForever == []<><<MonitorRead>>_vars

BadCredentials(req) ==
    req.token # slackVerificationToken \/ req.user_id = ""

\* C9 as claimed: the step in which handleOptIn deals with a request whose
\* token is wrong or whose user_id is empty answers 401, ends the request and
\* leaves optInUsers alone.
C9_BadCredentials401 ==
    [][\A h \in Handlers :
         (/\ hs[h].pc = "check"
          /\ hs'[h].pc # "check"
          /\ BadCredentials(hs[h].req))
         => /\ hs'[h].pc = "idle"
            /\ lastReply'.resp.code = 401
            /\ optInUsers' = optInUsers]_vars

\* C9, amended: such a request is answered 401 when its form parses and 400
\* when it does not; either way the request ends there and optInUsers is left
\* alone.
C9_BadCredentialsRejected ==
    [][\A h \in Handlers :
         (/\ hs[h].pc = "check"
          /\ hs'[h].pc # "check"
          /\ BadCredentials(hs[h].req))
         => /\ hs'[h].pc = "idle"
            /\ lastReply'.req = hs[h].req
            /\ lastReply'.resp.code = IF hs[h].req.parseOk THEN 401 ELSE 400
            /\ optInUsers' = optInUsers]_vars

\* C9's case: a well-formed request with bad credentials was answered 401
\* while optInUsers held a subscriber
C9_Witness ==
    /\ lastReply.req.path = "/optin"
    /\ lastReply.req.parseOk
    /\ BadCredentials(lastReply.req)
    /\ lastReply.resp.code = 401
    /\ optInUsers = {"U1"}

\* C10: optInUsers holds exactly the user_ids that had at least one accepted
\* opt-in, however many each had, and every acknowledgment names the user_id
\* of its request.
C10_OptInIdempotent ==
    /\ optInUsers = {u \in UserIds : okCount[u] >= 1}
    /\ (lastReply.req.path = "/optin" /\ lastReply.resp.code = 200)
         => lastReply.resp.to = lastReply.req.user_id

\* C10's case: a second accepted opt-in for U1 has been acknowledged, U2 being
\* a subscriber too
C10_Witness ==
    /\ okCount["U1"] = 2
    /\ optInUsers = {"U1", "U2"}
    /\ lastReply.resp.code = 200
    /\ lastReply.resp.to = "U1"
    /\ \A h \in Handlers : hs[h].pc = "idle"

\* what one compaction step makes of a file when the clock shows `at`
Compacted(f, at) ==
    [lines |-> RecentLogs(Split(f), at - logRetentionDuration), tail |-> Empty]

\* C11: compacting the file a compaction cycle has just written, with the same
\* clock reading and nothing appended in between, completes and yields that
\* very file.
C11_CompactionIdempotent ==
    (cleanPc = "sleep" /\ cleanResult = "written" /\ ~touched) =>
        /\ \A spare \in Spares : ~SlicePanics(Split(file), spare)
        /\ Compacted(file, cutoff + logRetentionDuration) = file

\* C11's case: a cycle dropped lines and kept two different ones
C11_Witness ==
    /\ cleanPc = "sleep"
    /\ cleanResult = "written"
    /\ ~touched
    /\ Len(file.lines) = 2
    /\ file.lines[1] # file.lines[2]
    /\ Len(logEntries) > 3

\* s is t with some elements left out, the others in t's order
RECURSIVE IsSubseq(_, _)
IsSubseq(s, t) ==
    IF s = <<>> THEN TRUE
    ELSE IF t = <<>> THEN FALSE
    ELSE IF Head(s) = Head(t) THEN IsSubseq(Tail(s), Tail(t))
    ELSE IsSubseq(s, Tail(t))

\* C20: the lines a compaction cycle keeps are the lines it read with some
\* left out, in the order read; the file it writes holds exactly them, each
\* ended by one newline and nothing after the last.
C20_OnlyRemovesLines ==
    /\ cleanPc = "write" => IsSubseq(recentLogs, logEntries)
    /\ (cleanPc = "sleep" /\ cleanResult = "written" /\ ~touched) =>
         /\ IsSubseq(file.lines, logEntries)
         /\ file.lines = recentLogs
         /\ file.tail = Empty
         /\ \A i \in 1..Len(file.lines) : file.lines[i].len > 0

\* C20's case: of three different lines read, the first and the last were
\* written back
C20_Witness ==
    /\ cleanPc = "sleep"
    /\ cleanResult = "written"
    /\ ~touched
    /\ logEntries = <<HelloLine(StartTime - 22), JunkLine, HelloLine(StartTime), Empty>>
    /\ file.lines = <<HelloLine(StartTime - 22), HelloLine(StartTime)>>

\* C12: before the first poll, lastState equals neither Low nor High.
C12_SentinelBeforeFirstPoll ==
    nPolls = 0 => lastState \notin {Low, High}

\* C13: each change monitorSwitch detects is followed by one call of
\* sendSlackMessage; when the call returns, with or without an error, no
\* further call is made for that change, `state` and lastState keep their
\* values, and the loop goes to its sleep, from which it polls again.
C13_OneAttemptContained ==
    /\ [](monPc \in {"off", "read", "sending", "sleep"} => nSent = nStores)
    /\ [](monPc \in {"log", "send"} => nSent + 1 = nStores)
    /\ [][monPc = "sending" /\ monPc' # "sending"
            => /\ monPc' = "sleep"
               /\ nSent' = nSent
               /\ state' = state
               /\ lastState' = lastState
               /\ ~crashed']_vars
    /\ [][monPc = "sleep" /\ monPc' # "sleep" => monPc' = "read"]_vars

\* C13's case: a send has failed (the logger recorded it), and the loop has
\* since detected the next change and dispatched it
C13_Witness ==
    /\ \E a \in appended : a.entry.msg = "Failed to send Slack message"
    /\ monPc = "sending"
    /\ nSent = 2
    /\ state = (lastState = Low)

\* C17: whenever monitorSwitch is about to log a transition, the log file
\* behind the logger is open, so the message is appended to it.
C17_SinkOpenWhenLogging ==
    monPc = "log" => sinkOpen

\* C18 as stated: when sendSlackMessage is called for a transition, `state`
\* holds the new value and the transition's log line is not yet written.
C18_DispatchBeforeLog ==
    monPc = "send" => /\ state = (currentState = Low)
                      /\ nLogged < nStores

\* C18 as amended: the order is `state`, then log.Println, then
\* sendSlackMessage. When the line is handed to the logger `state` holds the
\* new value and the transition is not yet dispatched; when it is dispatched
\* `state` holds the new value and the line has been handed to the logger.
C18_StateLogDispatch ==
    /\ monPc = "log" => /\ state = (currentState = Low)
                        /\ nLogged + 1 = nStores
                        /\ nSent + 1 = nStores
    /\ monPc = "send" => /\ state = (currentState = Low)
                         /\ nLogged = nStores
                         /\ nSent + 1 = nStores
    /\ monPc = "sending" => /\ nLogged = nStores
                            /\ nSent = nStores

\* C18's case: the second transition is being dispatched, its line is in the
\* log file
C18_Witness ==
    /\ monPc = "send"
    /\ nStores = 2
    /\ nLogged = 2
    /\ \E a \in appended : a.entry.msg = Message

\* C19: after each completed iteration of the polling loop, `state` equals
\* (the level just read = Low).
C19_StateMatchesLastPoll ==
    monPc = "sleep" => state = (currentState = Low)

\* C14: a handler that is writing its response does not hold optInUsersLock.
C14_NoLockWhileResponding ==
    \A h \in Handlers : hs[h].pc = "respond" => HandlerTask(h) \notin lockHolder

\* the step of cleanupOldLogs on which os.ReadFile fails: the loop stays in
\* its sleep and sets the next wake-up
ReadFailed == cleanPc = "sleep" /\ cleanPc' = "sleep" /\ wakeAt' # wakeAt

\* C16 as stated: a cycle whose read fails leaves the content of the log file
\* unchanged.
C16_ReadFailureLeavesStore ==
    [][ReadFailed => file' = file]_vars

\* C16 as amended: a cycle whose read fails does not rewrite the log file; the
\* only change it can make to the file is the logger's line "Failed to read
\* log file" appended at its end. The process keeps running, the loop sleeps
\* for logCleanupInterval, and the cycle after that works on a fresh read of
\* the whole file.
C16_ReadFailureSkipsCycle ==
    /\ [][ReadFailed =>
            /\ file' \in {file,
                          AppendBytes(file, StdLine(now, "Failed to read log file"))}
            /\ wakeAt' = now + logCleanupInterval
            /\ logEntries' = logEntries
            /\ recentLogs' = recentLogs
            /\ ~crashed']_vars
    /\ [][cleanPc = "sleep" /\ cleanPc' # "sleep" =>
            /\ now >= wakeAt
            /\ cleanPc' = "filter"
            /\ logEntries' = Split(file)
            /\ file' = file]_vars

\* C16's case: a read failed, its line is in the file, and the next cycle has
\* read the whole file, that line included
C16_Witness ==
    /\ cleanPc = "filter"
    /\ cleanResult = "readfail"
    /\ logEntries = Split(file)
    /\ \E i \in 1..Len(logEntries) : logEntries[i].msg = "Failed to read log file"

\* the steps of one kind of task: a handler serving a request for `path`
\* moves; monitorSwitch moves; cleanupOldLogs moves
HandlerMoves(path) ==
    \E h \in Handlers :
        /\ hs'[h] # hs[h]
        /\ hs[h].pc # "idle"
        /\ hs[h].req.path = path
MonitorMoves == monPc' # monPc
CleanupMoves == cleanPc' # cleanPc \/ wakeAt' # wakeAt

\* C15: `state` changes only in monitorSwitch's step for a detected change,
\* optInUsers only in the map insert of an opt-in request that passed the
\* check; a /status handler changes neither, an /optin handler does not change
\* `state`, and monitorSwitch and cleanupOldLogs do not change optInUsers.
C15_MutationOwnership ==
    [][/\ state' # state => monPc = "update" /\ monPc' = "log"
       /\ optInUsers' # optInUsers =>
            \E h \in Handlers :
                /\ hs[h].pc = "insert" /\ hs'[h].pc = "respond"
                /\ hs[h].req.path = "/optin"
                /\ hs[h].req.parseOk
                /\ ~Unauthorized(hs[h].req.user_id, hs[h].req.token)
                /\ optInUsers' = optInUsers \cup {hs[h].req.user_id}
       /\ HandlerMoves("/status") => state' = state /\ optInUsers' = optInUsers
       /\ HandlerMoves("/optin") => state' = state
       /\ MonitorMoves => optInUsers' = optInUsers
       /\ CleanupMoves => optInUsers' = optInUsers]_vars

\* C15's case: monitorSwitch has written `state`, an opt-in has been stored,
\* a compaction cycle is under way, and a /status handler and a second /optin
\* handler, one that will be rejected, are running
C15_Witness ==
    /\ state = TRUE
    /\ optInUsers = {"U1"}
    /\ cleanPc = "write"
    /\ monPc = "sleep"
    /\ hs[1].pc = "reply"
    /\ hs[2].pc = "check" /\ hs[2].req.token # slackVerificationToken

====
